---- MODULE Spec2Model ----
(***************************************************************************)
(* StrictRedux: slice registry and query router over a redux store.        *)
(*                                                                         *)
(* Strings are sequences of one-character strings, so that startsWith,     *)
(* split, includes and trim are computed on them as the code computes      *)
(* them.  JavaScript objects are sequences of [key, val] entries in        *)
(* insertion order (the order Object.keys reports).  Objects whose         *)
(* identity the code compares (the whole state, the state slices) carry a  *)
(* reference number ref; a new object gets the next unused number.         *)
(***************************************************************************)
EXTENDS Integers, Sequences, FiniteSets, TLC

VARIABLES
    build,          \* which copy of the class runs: "src" (src/StrictRedux.js) or "lib" (the built lib)
    _actionCreators,\* this._actionCreators: full name -> bound action
    _selectors,     \* this._selectors: full name -> selector wrapper
    _reducers,      \* this._reducers: slice name -> slice reducer (its descriptor)
    storeState,     \* the redux store's current state (what getState() returns)
    prevState,      \* this._selectors[fullName].prevState, as the ref of that state (0: not set)
    lastArg,        \* per selector: ref of the slice object its previous call passed on (0: none)
    snapshot,       \* a whole-state object a caller holds (from getState(), or given by connect())
    nextRef,        \* the next unused object reference
    last,           \* what the last operation was given and what it did
    incremented     \* the sum of the payloads of the counter_increment actions reduced so far

vars == <<build, _actionCreators, _selectors, _reducers, storeState,
          prevState, lastArg, snapshot, nextRef, last, incremented>>

-----------------------------------------------------------------------------
(* Bounds *)

MaxRef == 8         \* object references handed out in one behaviour
MaxValue == 10      \* largest number a state field reaches

-----------------------------------------------------------------------------
(* Strings *)

SliceSeparator == "_"
QuerySeparator == ","
Whitespace == {" ", "\n"}

StartsWith(s, p) == Len(p) <= Len(s) /\ SubSeq(s, 1, Len(p)) = p

Includes(s, c) == \E i \in DOMAIN s : s[i] = c

RECURSIVE Split(_, _)
Split(s, sep) ==
    IF ~Includes(s, sep) THEN <<s>>
    ELSE LET i == CHOOSE i \in DOMAIN s : s[i] = sep /\ \A j \in 1..(i - 1) : s[j] # sep
         IN  <<SubSeq(s, 1, i - 1)>> \o Split(SubSeq(s, i + 1, Len(s)), sep)

Trim(s) ==
    LET keep == {i \in DOMAIN s : s[i] \notin Whitespace}
    IN  IF keep = {} THEN <<>>
        ELSE SubSeq(s, CHOOSE i \in keep : \A j \in keep : i <= j,
                       CHOOSE i \in keep : \A j \in keep : j <= i)

FullName(sliceName, key) == sliceName \o <<SliceSeparator>> \o key

-----------------------------------------------------------------------------
(* JavaScript values and objects *)

Num(n) == [t |-> "number", v |-> n]
\* new Error(): an object whose prototype chain holds Error
ErrorObject == [t |-> "error"]
Undefined == [t |-> "undefined"]

\* a + b: numeric addition of two numbers, string concatenation otherwise
Plus(a, b) ==
    IF a.t = "number" /\ b.t = "number" THEN Num(a.v + b.v)
    ELSE [t |-> "string", concat |-> <<a, b>>]

Keys(obj) == [i \in DOMAIN obj |-> obj[i].key]

HasOwn(obj, k) == \E i \in DOMAIN obj : obj[i].key = k

Get(obj, k) == obj[CHOOSE i \in DOMAIN obj : obj[i].key = k].val

\* obj[k] for a state slice: undefined when the key is absent
Prop(obj, k) == IF HasOwn(obj, k) THEN Get(obj, k) ELSE Undefined

\* obj[k] = v: an existing key keeps its place, a new key goes last
Put(obj, k, v) ==
    IF HasOwn(obj, k)
    THEN [i \in DOMAIN obj |-> IF obj[i].key = k THEN [key |-> k, val |-> v] ELSE obj[i]]
    ELSE Append(obj, [key |-> k, val |-> v])

\* {...a, ...b}
RECURSIVE Spread(_, _)
Spread(a, b) ==
    IF b = <<>> THEN a
    ELSE Spread(Put(a, Head(b).key, Head(b).val), Tail(b))

-----------------------------------------------------------------------------
(* Names used by the slice descriptors and by the callers *)

n_counter == <<"c","o","u","n","t","e","r">>
n_value == <<"v","a","l","u","e">>
n_increment == <<"i","n","c","r","e","m","e","n","t">>
n_put == <<"p","u","t">>
n_a == <<"a">>
n_ab == <<"a","b">>
n_b == <<"b">>
n_s == <<"s">>
n_v == <<"v">>
n_x == <<"x">>
n_y == <<"y">>
n_z == <<"z">>
n_x_y == <<"x","_","y">>
n_nonexistent == <<"n","o","n","e","x","i","s","t","e","n","t">>
n_toString == <<"t","o","S","t","r","i","n","g">>
n_proto == <<"_","_","p","r","o","t","o","_","_">>
n_reduxInit == <<"@","@","I","N","I","T">>
n_undefined == <<"u","n","d","e","f","i","n","e","d">>

\* The property names every object literal inherits from Object.prototype
\* (those the model's inputs can name).
ObjectPrototype == {n_toString, n_proto}

\* obj[k] as a truth value: an own entry, an inherited member, or undefined
Lookup(obj, k) ==
    IF HasOwn(obj, k) THEN "own"
    ELSE IF k \in ObjectPrototype THEN "inherited"
    ELSE "missing"

-----------------------------------------------------------------------------
(* Slice descriptors.  An action reducer (stateSlice, payload) => partial  *)
(* state is one of:                                                        *)
(*   add k:  (stateSlice, p) => ({ k: stateSlice.k + p })                   *)
(*   set k:  (stateSlice, p) => ({ k: p })                                  *)

Add(k) == [kind |-> "add", key |-> k]
Set(k) == [kind |-> "set", key |-> k]

Entry(k, val) == [key |-> k, val |-> val]

Descriptor(name, initialState, actionReducers, createSelectors) ==
    [sliceName |-> name, initialState |-> initialState,
     actionReducers |-> actionReducers, createSelectors |-> createSelectors]

\* slice counter with initialState {value: 0} and the reducer
\* increment: (state, payload) => ({value: state.value + payload})
CounterSlices ==
    << Descriptor(n_counter, <<Entry(n_value, Num(0))>>,
                  <<Entry(n_increment, Add(n_value))>>, <<>>) >>

\* two slices, one name a prefix of the other; the reducer put returns a key
\* that initialState does not declare
PrefixSlices ==
    << Descriptor(n_a, <<Entry(n_x, Num(1))>>,
                  <<Entry(n_x, Add(n_x)), Entry(n_put, Set(n_z))>>, <<>>),
       Descriptor(n_ab, <<Entry(n_y, Num(2))>>, <<Entry(n_x, Set(n_y))>>, <<>>) >>

\* action reducer keys that contain the separator
SeparatorSlices ==
    << Descriptor(n_s, <<Entry(n_v, Num(0))>>, <<Entry(n_x_y, Set(n_v))>>, <<>>),
       Descriptor(n_b, <<Entry(n_y, Num(2))>>,
                  <<Entry(n_x, Add(n_y)), Entry(n_x_y, Set(n_y))>>, <<>>) >>

\* the two slices a = {x: 1} and b = {y: 2}
ScenarioSlices ==
    << Descriptor(n_a, <<Entry(n_x, Num(1))>>, <<Entry(n_x, Add(n_x))>>, <<>>),
       Descriptor(n_b, <<Entry(n_y, Num(2))>>, <<Entry(n_y, Set(n_y))>>, <<>>) >>

\* A selector (stateSlice, options) => stateSlice.k + 100 that a selector
\* factory returns
Custom(k) == [kind |-> "custom", prop |-> k]

\* a slice with a selector factory: createSelectors returns {x: ..., z: ...},
\* x a key of initialState as well
FactorySlices ==
    << Descriptor(n_a, <<Entry(n_x, Num(1)), Entry(n_y, Num(2))>>,
                  <<Entry(n_x, Add(n_x))>>,
                  <<Entry(n_x, Custom(n_x)), Entry(n_z, Custom(n_y))>>) >>

Configurations == {CounterSlices, PrefixSlices, SeparatorSlices}

\* (payload, meta) pairs a bound action is called with; an undefined meta is
\* a call without the second argument
BoundActionArguments ==
    { <<Num(5), Undefined>>, <<Num(1), Undefined>>, <<Num(1), Num(0)>>, <<Num(1), Num(7)>>,
      <<ErrorObject, Num(7)>> }

PayloadArguments == { <<Num(5), Undefined>>, <<Num(1), Undefined>> }

ApplyReducer(h, stateSlice, arg) ==
    IF h.kind = "add"
    THEN <<Entry(h.key, Plus(Prop(stateSlice, h.key), arg))>>
    ELSE <<Entry(h.key, arg)>>

-----------------------------------------------------------------------------
(* Construction: _registerStateSlice for each descriptor, then createStore *)

\* the bound action registered at fullName; its .type is the full name
CreateBoundAction(fullName) == [type |-> fullName]

RECURSIVE RegisterActions(_, _, _)
RegisterActions(creators, sliceName, actionNames) ==
    IF actionNames = <<>> THEN creators
    ELSE RegisterActions(
             Put(creators, FullName(sliceName, Head(actionNames)),
                 CreateBoundAction(FullName(sliceName, Head(actionNames)))),
             sliceName, Tail(actionNames))

\* Default selectors that return the field plus 100 instead of the raw field.
CreateOffsetSelectors(sliceDescriptor) ==
    [i \in DOMAIN sliceDescriptor.initialState |->
        Entry(sliceDescriptor.initialState[i].key,
              [kind |-> "custom", prop |-> sliceDescriptor.initialState[i].key])]

\* one selector stateSlice => stateSlice[stateProperty] per initialState key
CreateDefaultSelectors(sliceDescriptor) ==
    [i \in DOMAIN sliceDescriptor.initialState |->
        Entry(sliceDescriptor.initialState[i].key,
              [kind |-> "default", prop |-> sliceDescriptor.initialState[i].key])]

\* The source reads the factory from the descriptor's createSelectors; the
\* built lib reads createSliceSelectors, which the descriptors do not have.
AllSelectors(bld, sliceDescriptor) ==
    IF bld = "src"
    THEN Spread(CreateDefaultSelectors(sliceDescriptor), sliceDescriptor.createSelectors)
    ELSE CreateDefaultSelectors(sliceDescriptor)

RECURSIVE RegisterSelectors(_, _, _)
RegisterSelectors(selectors, sliceName, allSelectors) ==
    IF allSelectors = <<>> THEN selectors
    ELSE RegisterSelectors(
             Put(selectors, FullName(sliceName, Head(allSelectors).key),
                 [sliceName |-> sliceName, selector |-> Head(allSelectors).val]),
             sliceName, Tail(allSelectors))

CreateSelectors(selectors, bld, sliceDescriptor) ==
    RegisterSelectors(selectors, sliceDescriptor.sliceName,
                      AllSelectors(bld, sliceDescriptor))

\* The instance after the descriptors sl[1..n] are registered.  The reducer of
\* a slice closes over its descriptor; initialRef is the reference of the
\* descriptor's initialState object.
RECURSIVE RegisterStateSlices(_, _, _)
RegisterStateSlices(bld, sl, n) ==
    IF n = 0 THEN [creators |-> <<>>, reducers |-> <<>>, selectors |-> <<>>]
    ELSE LET before == RegisterStateSlices(bld, sl, n - 1)
             d == sl[n]
         IN  [creators |-> RegisterActions(before.creators, d.sliceName,
                                           Keys(d.actionReducers)),
              reducers |-> Put(before.reducers, d.sliceName,
                               [descriptor |-> d, initialRef |-> n]),
              selectors |-> CreateSelectors(before.selectors, bld, d)]

\* createStore(combineReducers(_reducers)): every slice reducer is called with
\* an undefined state and an "@@"-type action and returns its initialState
InitialState(sl, reducers) ==
    [ref |-> Len(sl) + 1,
     props |-> [i \in DOMAIN reducers |->
                   Entry(reducers[i].key,
                         [ref |-> reducers[i].val.initialRef,
                          props |-> reducers[i].val.descriptor.initialState])]]

-----------------------------------------------------------------------------
(* The slice reducer and the store's dispatch *)

ReservedPrefix == <<"@", "@">>

\* A validation that accepts every type that begins with the name of a slice
\* that has bound actions, instead of the registered identifiers alone.
IsUnknownTypeBySliceName(creators, type) ==
    /\ ~(\E i \in DOMAIN creators :
            StartsWith(type, Split(creators[i].key, SliceSeparator)[1]))
    /\ ~StartsWith(type, ReservedPrefix)

\* !Object.keys(this._actionCreators).includes(action.type) &&
\* !action.type.startsWith('@@')
IsUnknownType(creators, type) ==
    /\ ~HasOwn(creators, type)
    /\ ~StartsWith(type, ReservedPrefix)

\* action.type.split(SliceSeparator)[1]; used as a property name, an
\* undefined second part is the name "undefined"
SliceActionType(type) ==
    LET parts == Split(type, SliceSeparator)
    IN  IF Len(parts) >= 2 THEN parts[2] ELSE n_undefined

\* action.type.startsWith(sliceName) && actionReducers[sliceActionType].
\* No registered type of the configurations has an Object.prototype name as
\* its second part, so the look-up is one among the descriptor's own keys.
OwnsAction(sliceDescriptor, type) ==
    /\ StartsWith(type, sliceDescriptor.sliceName)
    /\ HasOwn(sliceDescriptor.actionReducers, SliceActionType(type))

\* An action reducer that is handed the whole action in every build.
ReducerArgumentWholeAction(bld, action) == action

\* The second argument of the action reducer: the payload in the source, the
\* whole action in the built lib.
ReducerArgument(bld, action) ==
    IF bld = "src" THEN action.payload ELSE action

\* {...state, ...partial}, a new object
MergeState(state, partial, ref) ==
    [ref |-> ref, props |-> Spread(state.props, partial)]

\* The reducer of one slice.  calls lists the action reducers it invoked,
\* each with the arguments it was given.
CreateReducer(bld, creators, sliceDescriptor, state, action, ref) ==
    IF IsUnknownType(creators, action.type)
    THEN [threw |-> TRUE, state |-> state, calls |-> <<>>]
    ELSE IF OwnsAction(sliceDescriptor, action.type)
    THEN LET key == SliceActionType(action.type)
             arg == ReducerArgument(bld, action)
             partial == ApplyReducer(Get(sliceDescriptor.actionReducers, key),
                                     state.props, arg)
         IN  [threw |-> FALSE,
              state |-> MergeState(state, partial, ref),
              calls |-> <<[sliceName |-> sliceDescriptor.sliceName, key |-> key,
                           state |-> state, arg |-> arg, partial |-> partial]>>]
    ELSE [threw |-> FALSE, state |-> state, calls |-> <<>>]

\* redux combineReducers, the first n slices: each slice reducer in key
\* order; an exception of one ends the dispatch
RECURSIVE ReduceSlices(_, _, _, _, _, _, _)
ReduceSlices(bld, creators, reducers, state, action, ref, n) ==
    IF n = 0 THEN [threw |-> FALSE, props |-> <<>>, calls |-> <<>>, ref |-> ref]
    ELSE LET before == ReduceSlices(bld, creators, reducers, state, action, ref, n - 1)
             key == reducers[n].key
             r == CreateReducer(bld, creators, reducers[n].val.descriptor,
                                Get(state.props, key), action, before.ref)
         IN  IF before.threw \/ r.threw
             THEN [threw |-> TRUE, props |-> before.props,
                   calls |-> before.calls, ref |-> before.ref]
             ELSE [threw |-> FALSE,
                   props |-> Append(before.props, Entry(key, r.state)),
                   calls |-> before.calls \o r.calls,
                   ref |-> IF r.state.ref = before.ref THEN before.ref + 1
                           ELSE before.ref]

\* redux store.dispatch over combineReducers: the next state is a new object
\* when some slice's object changed, the same object otherwise, and the
\* current state stays when a reducer throws
Dispatch(bld, creators, reducers, state, action, ref) ==
    LET r == ReduceSlices(bld, creators, reducers, state, action, ref, Len(reducers))
        hasChanged == \E i \in DOMAIN r.props :
                          r.props[i].val.ref # state.props[i].val.ref
    IN  IF r.threw
        THEN [threw |-> TRUE, state |-> state, calls |-> r.calls, ref |-> ref]
        ELSE IF hasChanged
        THEN [threw |-> FALSE, state |-> [ref |-> r.ref, props |-> r.props],
              calls |-> r.calls, ref |-> r.ref + 1]
        ELSE [threw |-> FALSE, state |-> state, calls |-> r.calls, ref |-> r.ref]

Truthy(val) ==
    /\ val.t # "undefined"
    /\ val.t = "number" => val.v # 0

\* payload instanceof Error || Object.getPrototypeOf(payload) instanceof Error
IsErrorLike(val) == val.t = "error"

\* The action object a bound action builds from (payload, meta)
BuildAction(type, payload, meta) ==
    LET action == [t |-> "object", type |-> type, payload |-> payload]
        withMeta == IF Truthy(meta) THEN action @@ ("meta" :> meta) ELSE action
    IN  IF Truthy(payload) /\ IsErrorLike(payload)
        THEN withMeta @@ ("error" :> TRUE)
        ELSE withMeta

\* every number of the state is within the bound, and no string is a
\* concatenation of a concatenation
BoundedProps(props) ==
    \A i \in DOMAIN props :
        LET val == props[i].val
        IN  /\ val.t = "number" => val.v <= MaxValue
            /\ val.t = "string" => \A j \in 1..2 : val.concat[j].t # "string"

BoundedState(state) == \A i \in DOMAIN state.props : BoundedProps(state.props[i].val.props)

-----------------------------------------------------------------------------
(* The instance *)

Range(seq) == {seq[i] : i \in DOMAIN seq}

\* action types of no bound action that a caller may hand to the store's
\* dispatch and to strictDispatch
ForeignTypes == {FullName(n_a, n_nonexistent), n_reduxInit}

ForeignRedispatchTypes == ForeignTypes \cup {n_toString, n_proto}

\* selector names a caller may ask for
SelectorNames ==
    Range(Keys(_selectors)) \cup {FullName(n_a, n_nonexistent), n_toString}

\* The instance after new StrictRedux(slices) for one of the given slices
\* arguments, on build bld
InitWith(bld, configurations) ==
    /\ build = bld
    /\ \E slices \in configurations :
         \E instance \in {RegisterStateSlices(bld, slices, Len(slices))} :
           /\ _actionCreators = instance.creators
           /\ _selectors = instance.selectors
           /\ _reducers = instance.reducers
           /\ storeState = InitialState(slices, instance.reducers)
           /\ prevState = [name \in Range(Keys(instance.selectors)) |-> 0]
           /\ lastArg = [name \in Range(Keys(instance.selectors)) |-> 0]
           /\ nextRef = Len(slices) + 2
    /\ snapshot = Undefined
    /\ last = [op |-> "new"]
    /\ incremented = 0

InitOf(bld) == InitWith(bld, Configurations)

Init == InitOf("src")

InitLib == InitOf("lib")

\* this._store.dispatch(action), and what it did; given is what the caller
\* handed to the operation
StoreDispatch(op, action, given) ==
    \E r \in {Dispatch(build, _actionCreators, _reducers, storeState, action, nextRef)} :
        /\ r.ref <= MaxRef + 1
        /\ BoundedState(r.state)
        /\ storeState' = r.state
        /\ nextRef' = r.ref
        /\ last' = [op |-> op, given |-> given, action |-> action, dispatched |-> TRUE,
                    threw |-> IF r.threw THEN "Unknown action type" ELSE "none",
                    before |-> storeState, calls |-> r.calls]
        /\ incremented' = IF action.type = FullName(n_counter, n_increment) /\ ~r.threw
                             /\ action.payload.t = "number"
                          THEN incremented + action.payload.v ELSE incremented
        /\ UNCHANGED <<build, _actionCreators, _selectors, _reducers,
                       prevState, lastArg, snapshot>>

\* getAction(name)(payload, meta): a bound action called by its owner
BoundActionWith(arguments) ==
    \E name \in Range(Keys(_actionCreators)), args \in arguments :
        StoreDispatch("boundAction",
                      BuildAction(Get(_actionCreators, name).type, args[1], args[2]),
                      args)

BoundAction == BoundActionWith(BoundActionArguments)

\* a bound action called with a payload alone
BoundActionPayload == BoundActionWith(PayloadArguments)

\* getStore().dispatch(action): the escape hatch
RawDispatch ==
    \E type \in ForeignTypes :
        StoreDispatch("dispatch", [t |-> "object", type |-> type, payload |-> Num(1)],
                      [t |-> "object", type |-> type, payload |-> Num(1)])

\* A member inherited from Object.prototype called as (payload, meta):
\* toString returns a string, __proto__ is an object and cannot be called
CallInherited(name) == IF name = n_proto THEN "TypeError" ELSE "none"

\* A strictDispatch that hands on the payload alone:
\* this.getAction(action.type)(action.payload)
StrictDispatchPayloadOnly ==
    \E action \in (IF last.op = "boundAction" THEN {last.action} ELSE {})
                   \cup {[t |-> "object", type |-> type, payload |-> Num(1)] :
                            type \in ForeignRedispatchTypes} :
        LET found == Lookup(_actionCreators, action.type)
        IN  IF found = "own"
            THEN StoreDispatch("strictDispatch",
                               BuildAction(Get(_actionCreators, action.type).type,
                                           action.payload, Undefined),
                               action)
            ELSE /\ last' = [op |-> "strictDispatch", given |-> action, action |-> action,
                             dispatched |-> FALSE,
                             threw |-> IF found = "missing" THEN "Action not found"
                                       ELSE CallInherited(action.type),
                             before |-> storeState, calls |-> <<>>]
                 /\ UNCHANGED <<build, _actionCreators, _selectors, _reducers,
                                storeState, prevState, lastArg, snapshot, nextRef, incremented>>

\* A strictDispatch that registers a bound action for a type it does not
\* find, instead of throwing.
StrictDispatchRegistering ==
    \E action \in (IF last.op = "boundAction" THEN {last.action} ELSE {})
                   \cup {[t |-> "object", type |-> type, payload |-> Num(1)] :
                            type \in ForeignRedispatchTypes} :
        LET found == Lookup(_actionCreators, action.type)
        IN  IF found = "own"
            THEN StoreDispatch("strictDispatch",
                               BuildAction(Get(_actionCreators, action.type).type,
                                           action.payload,
                                           IF "meta" \in DOMAIN action
                                           THEN action.meta ELSE Undefined),
                               action)
            ELSE /\ last' = [op |-> "strictDispatch", given |-> action, action |-> action,
                             dispatched |-> FALSE, threw |-> "none",
                             before |-> storeState, calls |-> <<>>]
                 /\ _actionCreators' = Put(_actionCreators, action.type,
                                           CreateBoundAction(action.type))
                 /\ UNCHANGED <<build, _selectors, _reducers, storeState, prevState,
                                lastArg, snapshot, nextRef, incremented>>

\* strictDispatch(action) = this.getAction(action.type)(action.payload, action.meta)
\* The action is one a middleware intercepted (the action the last bound
\* action dispatched), or one of a foreign type.
StrictDispatch ==
    \E action \in (IF last.op = "boundAction" THEN {last.action} ELSE {})
                   \cup {[t |-> "object", type |-> type, payload |-> Num(1)] :
                            type \in ForeignRedispatchTypes} :
        LET found == Lookup(_actionCreators, action.type)
        IN  IF found = "own"
            THEN StoreDispatch("strictDispatch",
                               BuildAction(Get(_actionCreators, action.type).type,
                                           action.payload,
                                           IF "meta" \in DOMAIN action
                                           THEN action.meta ELSE Undefined),
                               action)
            ELSE /\ last' = [op |-> "strictDispatch", given |-> action, action |-> action,
                             dispatched |-> FALSE,
                             threw |-> IF found = "missing" THEN "Action not found"
                                       ELSE CallInherited(action.type),
                             before |-> storeState, calls |-> <<>>]
                 /\ UNCHANGED <<build, _actionCreators, _selectors, _reducers,
                                storeState, prevState, lastArg, snapshot, nextRef, incremented>>

\* getStore().getState(), kept by the caller
GetState ==
    /\ snapshot # storeState
    /\ snapshot' = storeState
    /\ last' = [op |-> "getState"]
    /\ UNCHANGED <<build, _actionCreators, _selectors, _reducers,
                   storeState, prevState, lastArg, nextRef, incremented>>

\* the selector function applied to (stateSlice, options)
ApplySelector(selector, stateSlice, options) ==
    IF selector.kind = "default" THEN Prop(stateSlice, selector.prop)
    ELSE Plus(Prop(stateSlice, selector.prop), Num(100))

\* A wrapper that hands on state[sliceName] itself whatever the whole state.
SelectorWrapperWithoutCopy(fullName, maybeState, prev, ref) ==
    LET state == IF maybeState = Undefined THEN storeState ELSE maybeState
        entry == Get(_selectors, fullName)
        slice == Get(state.props, entry.sliceName)
    IN  [state |-> state, slice |-> slice, stateSlice |-> slice,
         prevState |-> state.ref,
         result |-> ApplySelector(entry.selector, slice.props, Undefined),
         ref |-> ref]

\* The wrapper registered at fullName, called as (options, maybeState):
\*   state = maybeState || this._store.getState()
\*   stateSlice = prevState === state ? state[sliceName] : {...state[sliceName]}
\*   prevState = state
\*   return allSelectors[sliceSelectorName](stateSlice, options)
SelectorWrapper(fullName, maybeState, prev, ref) ==
    LET state == IF maybeState = Undefined THEN storeState ELSE maybeState
        entry == Get(_selectors, fullName)
        slice == Get(state.props, entry.sliceName)
        stateSlice == IF prev = state.ref THEN slice
                      ELSE [ref |-> ref, props |-> slice.props]
    IN  [state |-> state, slice |-> slice, stateSlice |-> stateSlice,
         prevState |-> state.ref,
         result |-> ApplySelector(entry.selector, stateSlice.props, Undefined),
         ref |-> IF prev = state.ref THEN ref ELSE ref + 1]

\* selectOne(selectorName, options, state) = getSelector(selectorName)(options, state)
SelectOne ==
    \E name \in SelectorNames, maybeState \in {Undefined, snapshot} :
        LET found == Lookup(_selectors, name)
        IN  IF found = "own"
            THEN \E r \in {SelectorWrapper(name, maybeState, prevState[name], nextRef)} :
                    /\ r.ref <= MaxRef + 1
                    /\ prevState' = [prevState EXCEPT ![name] = r.prevState]
                    /\ lastArg' = [lastArg EXCEPT ![name] = r.stateSlice.ref]
                    /\ nextRef' = r.ref
                    /\ last' = [op |-> "selectOne", name |-> name, found |-> found,
                                threw |-> "none", given |-> maybeState, state |-> r.state,
                                slice |-> r.slice, stateSlice |-> r.stateSlice,
                                prevStateBefore |-> prevState[name],
                                lastArgBefore |-> lastArg[name],
                                result |-> r.result]
                    /\ UNCHANGED <<build, _actionCreators, _selectors, _reducers,
                                   storeState, snapshot, incremented>>
            ELSE /\ last' = [op |-> "selectOne", name |-> name, found |-> found,
                             threw |-> IF found = "missing" THEN "Selector not found"
                                       ELSE CallInherited(name)]
                 /\ UNCHANGED <<build, _actionCreators, _selectors, _reducers,
                                storeState, prevState, lastArg, snapshot, nextRef, incremented>>

-----------------------------------------------------------------------------
(* Queries *)

Str(chars) == [t |-> "string", chars |-> chars]

\* The names one trimmed clause resolves to in a registry: the keys that
\* start with the clause when it has no separator, the clause itself when
\* registry[clause] is truthy otherwise
ResolveClause(registry, queryClause) ==
    IF ~Includes(queryClause, SliceSeparator)
    THEN SelectSeq(Keys(registry), LAMBDA fieldName : StartsWith(fieldName, queryClause))
    ELSE IF Lookup(registry, queryClause) # "missing" THEN <<queryClause>>
    ELSE <<>>

\* queryString.split(QuerySeparator).reduce(...) over the first n parts
RECURSIVE ResolveParts(_, _, _)
ResolveParts(registry, parts, n) ==
    IF n = 0 THEN [threw |-> "none", names |-> <<>>]
    ELSE LET before == ResolveParts(registry, parts, n - 1)
             names == ResolveClause(registry, Trim(parts[n]))
         IN  IF before.threw # "none" THEN before
             ELSE IF names = <<>>
             THEN [threw |-> "Bad store query", clause |-> Trim(parts[n]), names |-> <<>>]
             ELSE [threw |-> "none", names |-> before.names \o names]

\* _normalizeQuery(queryString, propertyName)
NormalizeQuery(queryString, registry) ==
    IF queryString.t # "string"
    THEN [threw |-> "Expecting query of type 'string'", names |-> <<>>]
    ELSE ResolveParts(registry, Split(queryString.chars, QuerySeparator),
                      Len(Split(queryString.chars, QuerySeparator)))

\* registry[name]: the registered accessor, or the inherited member
Accessor(registry, name) ==
    IF HasOwn(registry, name) THEN Get(registry, name) ELSE [inherited |-> name]

\* A reduce that appends an entry per resolved name, so that a name resolved
\* twice is held twice.
RECURSIVE CollectAccessorsPerClause(_, _)
CollectAccessorsPerClause(registry, names) ==
    IF names = <<>> THEN <<>>
    ELSE Append(CollectAccessorsPerClause(registry, SubSeq(names, 1, Len(names) - 1)),
                Entry(names[Len(names)], Accessor(registry, names[Len(names)])))

\* names.reduce((acc, name) => ({...acc, [name]: registry[name]}), {})
RECURSIVE CollectAccessors(_, _)
CollectAccessors(registry, names) ==
    IF names = <<>> THEN <<>>
    ELSE Put(CollectAccessors(registry, SubSeq(names, 1, Len(names) - 1)),
             names[Len(names)], Accessor(registry, names[Len(names)]))

\* the query "a_x, b_y"
q_a_x_b_y == Str(FullName(n_a, n_x) \o <<",", " ">> \o FullName(n_b, n_y))

\* the queries a caller asks: slice names, full names, names that are not
\* registered, several clauses with white space, and a value that is no string
Queries(registry) ==
    LET sliceNames == Range(Keys(_reducers))
        names == Range(Keys(registry))
    IN  {Str(q) : q \in sliceNames \cup names}
        \cup {Str(FullName(n_a, n_nonexistent)), Str(n_nonexistent), Str(n_toString),
              Str(n_proto), Str(<<>>), Undefined}
        \cup {Str(<<"\n", " ">> \o registry[1].key \o <<",", "\n", " ">>
                  \o registry[Len(registry)].key \o <<"\n">>)}
        \cup {Str(q \o <<",", " ">> \o registry[1].key) : q \in sliceNames}
        \cup {Str(registry[1].key \o <<",">> \o n_nonexistent), q_a_x_b_y}

\* getActions(queryString)
GetActions ==
    \E queryString \in Queries(_actionCreators) :
        \E r \in {NormalizeQuery(queryString, _actionCreators)} :
            /\ last' = [op |-> "getActions", query |-> queryString, resolved |-> r,
                        threw |-> r.threw,
                        result |-> CollectAccessors(_actionCreators, r.names)]
            /\ UNCHANGED <<build, _actionCreators, _selectors, _reducers, storeState,
                           prevState, lastArg, snapshot, nextRef, incremented>>

\* getSelectors(queryString)
GetSelectors ==
    \E queryString \in Queries(_selectors) :
        \E r \in {NormalizeQuery(queryString, _selectors)} :
            /\ last' = [op |-> "getSelectors", query |-> queryString, resolved |-> r,
                        threw |-> r.threw,
                        result |-> CollectAccessors(_selectors, r.names)]
            /\ UNCHANGED <<build, _actionCreators, _selectors, _reducers, storeState,
                           prevState, lastArg, snapshot, nextRef, incremented>>

\* names.reduce((acc, name) => ({...acc, [name]: name}), {})
NamesByName(names) == CollectAccessors([i \in DOMAIN names |-> Entry(names[i], names[i])], names)

\* getActionTypes(queryString): every action type when the query is omitted
\* or empty.  The built lib takes no query and lists every type.
GetActionTypes ==
    \E queryString \in Queries(_actionCreators) :
        \E r \in {IF build = "src" /\ Truthy(queryString)
                  /\ (queryString.t = "string" => queryString.chars # <<>>)
                  THEN NormalizeQuery(queryString, _actionCreators)
                  ELSE [threw |-> "none", names |-> Keys(_actionCreators)]} :
            /\ last' = [op |-> "getActionTypes", query |-> queryString, resolved |-> r,
                        threw |-> r.threw, result |-> NamesByName(r.names)]
            /\ UNCHANGED <<build, _actionCreators, _selectors, _reducers, storeState,
                           prevState, lastArg, snapshot, nextRef, incremented>>

\* A select that reads the store's current state whatever state it is given.
RECURSIVE SelectEachFromStore(_, _, _)
SelectEachFromStore(selectors, maybeState, n) ==
    IF n = 0
    THEN [threw |-> "none", result |-> <<>>, prevState |-> prevState,
          lastArg |-> lastArg, ref |-> nextRef]
    ELSE LET before == SelectEachFromStore(selectors, maybeState, n - 1)
             name == selectors[n].key
             r == SelectorWrapper(name, Undefined, before.prevState[name], before.ref)
         IN  IF before.threw # "none" THEN before
             ELSE IF ~HasOwn(_selectors, name)
             THEN [before EXCEPT !.threw = CallInherited(name)]
             ELSE [threw |-> "none",
                   result |-> Put(before.result, name, r.result),
                   prevState |-> [before.prevState EXCEPT ![name] = r.prevState],
                   lastArg |-> [before.lastArg EXCEPT ![name] = r.stateSlice.ref],
                   ref |-> r.ref]

\* select(queryString, options, state), the first n selectors of
\* getSelectors(queryString) called in key order
RECURSIVE SelectEach(_, _, _)
SelectEach(selectors, maybeState, n) ==
    IF n = 0
    THEN [threw |-> "none", result |-> <<>>, prevState |-> prevState,
          lastArg |-> lastArg, ref |-> nextRef]
    ELSE LET before == SelectEach(selectors, maybeState, n - 1)
             name == selectors[n].key
             r == SelectorWrapper(name, maybeState, before.prevState[name], before.ref)
         IN  IF before.threw # "none" THEN before
             ELSE IF ~HasOwn(_selectors, name)
             THEN [before EXCEPT !.threw = CallInherited(name)]
             ELSE [threw |-> "none",
                   result |-> Put(before.result, name, r.result),
                   prevState |-> [before.prevState EXCEPT ![name] = r.prevState],
                   lastArg |-> [before.lastArg EXCEPT ![name] = r.stateSlice.ref],
                   ref |-> r.ref]

SelectWith(queries) ==
    \E queryString \in queries, maybeState \in {Undefined, snapshot} :
        \E q \in {NormalizeQuery(queryString, _selectors)} :
            \E r \in {SelectEach(CollectAccessors(_selectors, q.names), maybeState,
                                 Len(CollectAccessors(_selectors, q.names)))} :
                /\ r.ref <= MaxRef + 1
                /\ prevState' = r.prevState
                /\ lastArg' = r.lastArg
                /\ nextRef' = r.ref
                /\ last' = [op |-> "select", query |-> queryString, resolved |-> q,
                            given |-> maybeState,
                            selectors |-> CollectAccessors(_selectors, q.names),
                            threw |-> IF q.threw # "none" THEN q.threw ELSE r.threw,
                            result |-> r.result]
                /\ UNCHANGED <<build, _actionCreators, _selectors, _reducers,
                               storeState, snapshot, incremented>>

\* the instance of the slices a and b
InitScenario == InitWith("src", {ScenarioSlices})

\* the instance of the slice with a selector factory
InitFactory == InitWith("src", {FactorySlices})

InitFactoryLib == InitWith("lib", {FactorySlices})

Select == SelectWith(Queries(_selectors))

\* the queries asked of the slices a and b: two full names, a slice name, a
\* slice name with one of its names, and a name that is not registered
ScenarioQueries ==
    {q_a_x_b_y, Str(n_b), Str(n_a \o <<",", " ">> \o FullName(n_a, n_x)),
     Str(FullName(n_a, n_nonexistent))}

SelectScenario == SelectWith(ScenarioQueries)

\* the instance as its dispatching callers use it
Next == BoundAction \/ RawDispatch \/ StrictDispatch

Spec == Init /\ [][Next]_vars

\* the same callers on the built lib
SpecLib == InitLib /\ [][Next]_vars

\* the instance as its reading callers use it, between dispatches
NextRead == BoundActionPayload \/ GetState \/ SelectOne

SpecRead == Init /\ [][NextRead]_vars

\* the readers of the slice with a selector factory
SpecFactory == InitFactory /\ [][NextRead]_vars

\* the same readers on the built lib
SpecFactoryLib == InitFactoryLib /\ [][NextRead]_vars

\* the instance as its querying callers use it; what a query resolves to
\* depends on the registries alone, which no operation writes
NextQuery == GetActions \/ GetSelectors \/ GetActionTypes \/ Select

SpecQuery == Init /\ [][NextQuery]_vars

-----------------------------------------------------------------------------
(* Construction with middleware factories: _buildStore registers the slices, *)
(* calls each factory with the instance, and only then creates the store.    *)

\* this._store is the empty object {} of the constructor until
\* Object.assign(this._store, createStore(...)) gives it dispatch and getState
StoreCreated == storeState # Undefined

\* The instance when _buildStore reaches applyMiddleware(...factories.map(...)):
\* every slice is registered, the store is not created
InitBuildStore ==
    /\ build = "src"
    /\ \E slices \in Configurations \cup {ScenarioSlices} :
         \E instance \in {RegisterStateSlices("src", slices, Len(slices))} :
           /\ _actionCreators = instance.creators
           /\ _selectors = instance.selectors
           /\ _reducers = instance.reducers
           /\ prevState = [name \in Range(Keys(instance.selectors)) |-> 0]
           /\ lastArg = [name \in Range(Keys(instance.selectors)) |-> 0]
           /\ nextRef = Len(slices) + 2
    /\ storeState = Undefined
    /\ snapshot = Undefined
    /\ last = [op |-> "new"]
    /\ incremented = 0

\* what a middleware factory does with the instance it is handed
FactoryCalls == {"getAction()()", "selectOne", "getStore().getState", "getActions"}

\* factory(this): the factory uses the instance before it returns the
\* middleware.  A bound action calls this._store.dispatch, a selector called
\* without a state calls this._store.getState; on the empty store object
\* neither is a function.  A query reads the registries alone.
MiddlewareFactory ==
    /\ ~StoreCreated
    /\ \E call \in FactoryCalls :
         \E name \in IF call = "selectOne" THEN Range(Keys(_selectors))
                      ELSE IF call = "getStore().getState" THEN {<<>>}
                      ELSE Range(Keys(_actionCreators)) :
            last' = [op |-> "factory", call |-> call, name |-> name,
                     instance |-> [_actionCreators |-> _actionCreators,
                                   _selectors |-> _selectors],
                     storeCreated |-> StoreCreated,
                     threw |-> IF call = "getActions"
                               THEN NormalizeQuery(Str(name), _actionCreators).threw
                               ELSE "TypeError"]
    /\ UNCHANGED <<build, _actionCreators, _selectors, _reducers, storeState,
                   prevState, lastArg, snapshot, nextRef, incremented>>

\* Object.assign(this._store, createStore(combineReducers(this._reducers), ...))
CreateStore ==
    /\ ~StoreCreated
    /\ storeState' = InitialState(_reducers, _reducers)
    /\ last' = [op |-> "createStore"]
    /\ UNCHANGED <<build, _actionCreators, _selectors, _reducers,
                   prevState, lastArg, snapshot, nextRef, incremented>>

\* the callers of the finished instance
UseBoundAction == StoreCreated /\ BoundActionPayload

UseSelectOne == StoreCreated /\ SelectOne

NextBuildStore == MiddlewareFactory \/ CreateStore \/ UseBoundAction \/ UseSelectOne

SpecBuildStore == InitBuildStore /\ [][NextBuildStore]_vars

\* the slices a and b under every kind of caller: bound actions,
\* strictDispatch, selector reads and queries
NextRegistry == BoundActionPayload \/ StrictDispatch \/ SelectOne \/ SelectScenario \/ GetActions

SpecRegistry == InitScenario /\ [][NextRegistry]_vars

\* the slices a and b read through queries, between dispatches
NextSelect == BoundActionPayload \/ GetState \/ SelectScenario

SpecSelect == InitScenario /\ [][NextSelect]_vars

-----------------------------------------------------------------------------
(* Properties of dispatching *)

DispatchOps == {"boundAction", "dispatch", "strictDispatch"}

\* the last operation handed an action to the store's dispatch
Dispatched == last.op \in DispatchOps /\ last.dispatched

\* the portion of a type after its first separator
AfterFirstSeparator(type) ==
    LET i == CHOOSE i \in DOMAIN type :
                 type[i] = SliceSeparator /\ \A j \in 1..(i - 1) : type[j] # SliceSeparator
    IN  SubSeq(type, i + 1, Len(type))

\* C1: for any handler key h of slice s, dispatching the action s_h changes
\* only slice s: the state object of every other slice is the same object,
\* with the same contents, before and after the dispatch, and no handler of
\* another slice is invoked.
C1_DispatchChangesOnlyItsSlice ==
    \A i \in DOMAIN _reducers :
        \A j \in DOMAIN _reducers[i].val.descriptor.actionReducers :
            ( /\ Dispatched
              /\ last.action.type =
                     FullName(_reducers[i].key,
                              _reducers[i].val.descriptor.actionReducers[j].key) )
            => /\ \A k \in DOMAIN _reducers :
                      k # i => storeState.props[k] = last.before.props[k]
               /\ \A c \in DOMAIN last.calls :
                      last.calls[c].sliceName = _reducers[i].key

\* C2: for every registered identifier s_h, whatever characters the key h
\* contains, dispatching s_h invokes handler h of slice s: the slice owns the
\* action whose type starts with its name and whose whole portion after the
\* first separator is one of its handler keys.
C2_RegisteredActionInvokesItsHandler ==
    \A i \in DOMAIN _reducers :
        \A j \in DOMAIN _reducers[i].val.descriptor.actionReducers :
            ( /\ Dispatched
              /\ last.action.type =
                     FullName(_reducers[i].key,
                              _reducers[i].val.descriptor.actionReducers[j].key) )
            => \E c \in DOMAIN last.calls :
                  /\ last.calls[c].sliceName = _reducers[i].key
                  /\ last.calls[c].key = AfterFirstSeparator(last.action.type)
                  /\ last.calls[c].key =
                         _reducers[i].val.descriptor.actionReducers[j].key

\* C3: the handler of the owning slice is called with (the current state of
\* the slice, action.payload), and the slice's new state is the handler's
\* return value merged over the current one: keys the handler does not return
\* keep their values, keys it returns take the returned values, also keys
\* that initialState does not have.
C3_HandlerGetsPayloadAndStateIsMerged ==
    Dispatched =>
        \A c \in DOMAIN last.calls :
            LET call == last.calls[c]
                old == Get(last.before.props, call.sliceName)
                new == Get(storeState.props, call.sliceName)
            IN  /\ call.state = old
                /\ call.arg = last.action.payload
                /\ Range(Keys(new.props)) =
                       Range(Keys(old.props)) \cup Range(Keys(call.partial))
                /\ \A k \in Range(Keys(new.props)) :
                       Get(new.props, k) = IF HasOwn(call.partial, k)
                                           THEN Get(call.partial, k)
                                           ELSE Get(old.props, k)

\* C4: dispatching to the store an action whose type is neither a registered
\* identifier nor begins with "@@" throws "Unknown action type", and the
\* store state is the same object with the same slices as before: no slice's
\* new state is committed and no handler runs.
C4_UnknownTypeThrowsAndCommitsNothing ==
    ( /\ Dispatched
      /\ last.action.type \notin Range(Keys(_actionCreators))
      /\ ~StartsWith(last.action.type, <<"@", "@">>) )
    => /\ last.threw = "Unknown action type"
       /\ storeState = last.before
       /\ last.calls = <<>>

\* C4 happens: an unregistered type was dispatched, and thrown, at a store
\* whose state had changed since construction
C4_Witness ==
    /\ last.op = "dispatch"
    /\ last.action.type = FullName(n_a, n_nonexistent)
    /\ last.threw = "Unknown action type"
    /\ storeState.ref > Len(storeState.props) + 1

\* C8: strictDispatch(action) dispatches to the store exactly when action.type
\* is a registered identifier; for every other type it throws "not found",
\* nothing is dispatched and the store state is unchanged.
C8_StrictDispatchForbidsUnregisteredTypes ==
    last.op = "strictDispatch" =>
        /\ last.dispatched <=> last.action.type \in Range(Keys(_actionCreators))
        /\ last.action.type \notin Range(Keys(_actionCreators))
           => /\ last.threw = "Action not found"
              /\ storeState = last.before

-----------------------------------------------------------------------------
(* Properties of reading through selectors *)

\* the last operation called a registered selector
Selected == last.op = "selectOne" /\ last.found = "own"

\* the references of the objects of a whole state
RefsOf(state) ==
    IF state = Undefined THEN {}
    ELSE {state.ref} \cup {state.props[i].val.ref : i \in DOMAIN state.props}

\* C5: given the same whole-state object as in the selector's previous call,
\* the slice argument passed to the selector function is the identical
\* object in both calls.
C5_SameStateSameSliceObject ==
    (Selected /\ last.prevStateBefore = last.state.ref)
    => last.stateSlice.ref = last.lastArgBefore

\* C6: when the whole-state object of a call differs from the one of the
\* selector's previous call, the selector function receives a fresh shallow
\* copy of the slice: an object that is neither state[slice] nor the object
\* passed on the previous call nor any object of the store, with the slice's
\* keys and values.
C6_ChangedStateGetsFreshCopy ==
    (Selected /\ last.prevStateBefore # last.state.ref)
    => /\ last.stateSlice.ref # last.slice.ref
       /\ last.stateSlice.ref # last.lastArgBefore
       /\ last.stateSlice.ref \notin RefsOf(storeState) \cup RefsOf(snapshot)
       /\ last.stateSlice.props = last.slice.props

\* C6 happens: a second call of a selector after the whole state changed,
\* for a slice whose own object is still the one of construction
C6_Witness ==
    /\ Selected
    /\ last.prevStateBefore # 0
    /\ last.prevStateBefore # last.state.ref
    /\ last.slice.ref = Get(_reducers, Get(_selectors, last.name).sliceName).initialRef
    /\ last.stateSlice.ref # last.slice.ref

-----------------------------------------------------------------------------
(* Properties of queries *)

QueryOps == {"getActions", "getSelectors", "getActionTypes", "select"}

\* the registry the last query was resolved in
RegistryOf(op) ==
    IF op \in {"getSelectors", "select"} THEN _selectors ELSE _actionCreators

\* the full names slice descriptor d contributes to that registry
NamesOfSlice(op, d) ==
    IF op \in {"getSelectors", "select"}
    THEN {FullName(d.sliceName, k) : k \in Range(Keys(AllSelectors(build, d)))}
    ELSE {FullName(d.sliceName, k) : k \in Range(Keys(d.actionReducers))}

\* C9: a query that is the name of slice s, a clause with no separator,
\* resolves in getActions, getSelectors, select and getActionTypes to all
\* registered actions or selectors of slice s and only those: no name of
\* another slice is included.
C9_SliceNameResolvesToItsSlice ==
    \A i \in DOMAIN _reducers :
        ( /\ last.op \in QueryOps
          /\ last.query = Str(_reducers[i].key)
          /\ ~Includes(_reducers[i].key, SliceSeparator) )
        => /\ last.threw = "none"
           /\ Range(last.resolved.names) =
                  NamesOfSlice(last.op, _reducers[i].val.descriptor)
           /\ Range(Keys(last.result)) =
                  NamesOfSlice(last.op, _reducers[i].val.descriptor)

\* C10: a clause that contains the separator is matched only as an exact
\* full name: the query "s_x" gives a result with exactly the one entry s_x
\* when s_x is registered, and throws when s_x is not registered.
C10_FullNameResolvesExactly ==
    ( /\ last.op \in QueryOps
      /\ last.query.t = "string"
      /\ ~Includes(last.query.chars, QuerySeparator)
      /\ Includes(last.query.chars, SliceSeparator) )
    => IF last.query.chars \in Range(Keys(RegistryOf(last.op)))
       THEN /\ last.threw = "none"
            /\ last.resolved.names = <<last.query.chars>>
            /\ Keys(last.result) = <<last.query.chars>>
       ELSE last.threw = "Bad store query"

\* the trimmed clauses of a query string
ClausesOf(queryString) ==
    [i \in DOMAIN Split(queryString.chars, QuerySeparator) |->
        Trim(Split(queryString.chars, QuerySeparator)[i])]

\* the registered names a clause stands for: the registered names that start
\* with it when it has no separator, itself when it is a registered name
RegisteredNames(registry, queryClause) ==
    IF ~Includes(queryClause, SliceSeparator)
    THEN SelectSeq(Keys(registry), LAMBDA fieldName : StartsWith(fieldName, queryClause))
    ELSE IF queryClause \in Range(Keys(registry)) THEN <<queryClause>>
    ELSE <<>>

\* the clauses of the last query that stand for no registered name
FailingClauses ==
    {i \in DOMAIN ClausesOf(last.query) :
        RegisteredNames(RegistryOf(last.op), ClausesOf(last.query)[i]) = <<>>}

\* C11: when some clause of a query, trimmed, resolves to zero names, the
\* call throws "Bad store query" naming such a clause and gives no partial
\* result, however many other clauses resolve; when every clause resolves to
\* at least one name, the call does not throw.
C11_ZeroNameClauseThrows ==
    (last.op \in QueryOps /\ last.query.t = "string")
    => IF FailingClauses # {}
       THEN /\ last.threw = "Bad store query"
            /\ \E i \in FailingClauses : last.resolved.clause = ClausesOf(last.query)[i]
            /\ last.result = <<>>
       ELSE last.threw = "none"

-----------------------------------------------------------------------------
(* Properties of reading through queries *)

\* the whole state the last read was made on
StateRead == IF last.given = Undefined THEN storeState ELSE last.given

\* what selectOne(name, options, state) returns for the arguments of the last read
SelectOneResult(name) == SelectorWrapper(name, last.given, prevState[name], nextRef).result

\* C12: select(query, options, state) returns a mapping whose keys are
\* exactly the names the query resolves to and whose value at each name n is
\* what selectOne(n, options, state) returns; with the slices a = {x: 1} and
\* b = {y: 2}, getSelectors("a_x, b_y") has exactly 2 entries and
\* select("a_x, b_y") is {a_x: 1, b_y: 2}.
C12_SelectMapsNamesToSelectOne ==
    /\ (last.op = "select" /\ last.threw = "none")
       => /\ Range(Keys(last.result)) = Range(last.resolved.names)
          /\ Len(last.result) = Cardinality(Range(last.resolved.names))
          /\ \A i \in DOMAIN last.result :
                 last.result[i].val = SelectOneResult(last.result[i].key)
    /\ (last.op = "select" /\ last.query = q_a_x_b_y)
       => /\ last.threw = "none"
          /\ Len(last.selectors) = 2
          /\ Range(Keys(last.selectors)) = {FullName(n_a, n_x), FullName(n_b, n_y)}
          /\ StateRead.ref = Len(ScenarioSlices) + 1
             => last.result = <<Entry(FullName(n_a, n_x), Num(1)),
                                 Entry(FullName(n_b, n_y), Num(2))>>

\* C12 happens: select("a_x, b_y") on the state of construction, kept by the
\* caller, after the store has moved on
C12_Witness ==
    /\ last.op = "select"
    /\ last.query = q_a_x_b_y
    /\ last.given # Undefined
    /\ last.given # storeState
    /\ last.given.ref = Len(ScenarioSlices) + 1
    /\ last.result = <<Entry(FullName(n_a, n_x), Num(1)), Entry(FullName(n_b, n_y), Num(2))>>

\* the registered selector names whose wrapper reads slice sliceName
SelectorsOfSlice(sliceName) ==
    {name \in Range(Keys(_selectors)) : Get(_selectors, name).sliceName = sliceName}

\* C13: for a descriptor named s with initialState keys K and no selector
\* factory, the selectors registered for slice s are exactly {s_k : k in K},
\* and after any sequence of dispatches each s_k returns the current raw
\* value of field k of slice s.
C13_DefaultSelectorsReadRawFields ==
    \A i \in DOMAIN _reducers :
        LET d == _reducers[i].val.descriptor
        IN  d.createSelectors = <<>>
            => /\ SelectorsOfSlice(d.sliceName) =
                      {FullName(d.sliceName, k) : k \in Range(Keys(d.initialState))}
               /\ \A k \in Range(Keys(d.initialState)) :
                      ( /\ Selected
                        /\ last.given = Undefined
                        /\ last.name = FullName(d.sliceName, k) )
                      => last.result = Prop(Get(storeState.props, d.sliceName).props, k)

\* C13 happens: a_x read after two dispatches added 1 and 5 to the field x
\* of slice a, whose initial value is 1
C13_Witness ==
    /\ Selected
    /\ last.given = Undefined
    /\ last.name = FullName(n_a, n_x)
    /\ Get(storeState.props, n_a).props = <<Entry(n_x, Num(7))>>
    /\ last.result = Num(7)

\* C14: when a descriptor supplies a selector factory, the selectors
\* registered for the slice are the default ones merged with the factory's
\* output: for a key k present in both, the registered selector s_k is the
\* custom one, so reading s_k returns the custom function's result on the
\* slice and not the raw field k, and the default selectors of the other
\* initialState keys remain registered.
C14_FactorySelectorsShadowDefaults ==
    \A i \in DOMAIN _reducers :
        LET d == _reducers[i].val.descriptor
            defaults == Range(Keys(d.initialState))
            customs == Range(Keys(d.createSelectors))
            slice == Get(storeState.props, d.sliceName).props
        IN  d.createSelectors # <<>>
            => /\ SelectorsOfSlice(d.sliceName) =
                      {FullName(d.sliceName, k) : k \in defaults \cup customs}
               /\ \A k \in customs :
                      Get(_selectors, FullName(d.sliceName, k)).selector =
                          Get(d.createSelectors, k)
               /\ \A k \in defaults \ customs :
                      Get(_selectors, FullName(d.sliceName, k)).selector =
                          [kind |-> "default", prop |-> k]
               /\ \A k \in defaults \cup customs :
                      ( /\ Selected
                        /\ last.given = Undefined
                        /\ last.name = FullName(d.sliceName, k) )
                      => last.result =
                             IF k \in customs
                             THEN ApplySelector(Get(d.createSelectors, k), slice, Undefined)
                             ELSE Prop(slice, k)

-----------------------------------------------------------------------------
(* Properties of bound actions *)

\* C15: a bound action called as (payload, meta) dispatches an action object
\* {type: identifier, payload} that carries a meta field equal to the given
\* meta exactly when a meta argument was provided, whatever its value, and
\* carries no meta field at all when meta was not provided.
C15_MetaAttachedExactlyWhenProvided ==
    last.op = "boundAction"
    => /\ last.action.type \in Range(Keys(_actionCreators))
       /\ last.action.payload = last.given[1]
       /\ IF last.given[2] # Undefined
          THEN "meta" \in DOMAIN last.action /\ last.action.meta = last.given[2]
          ELSE "meta" \notin DOMAIN last.action

-----------------------------------------------------------------------------
(* Properties of the registries *)

\* C16: once construction has finished, no bound-action dispatch,
\* strictDispatch call, selector read or query adds, removes or replaces an
\* entry of the action registry or of the selector registry: the registered
\* names and the accessor bound to each name are the same in every later
\* state.
C16_RegistriesNeverChange ==
    [][_actionCreators' = _actionCreators /\ _selectors' = _selectors]_vars

\* C16 happens: after dispatches and selector reads (a_x has noted the whole
\* state it last saw), an intercepted action went through strictDispatch, and
\* the registries are those of construction
C16_Witness ==
    /\ last.op = "strictDispatch"
    /\ last.dispatched
    /\ storeState.ref > Len(ScenarioSlices) + 3
    /\ prevState[FullName(n_a, n_x)] # 0
    /\ _actionCreators =
           RegisterStateSlices("src", ScenarioSlices, Len(ScenarioSlices)).creators
    /\ _selectors =
           RegisterStateSlices("src", ScenarioSlices, Len(ScenarioSlices)).selectors

-----------------------------------------------------------------------------
(* Properties of construction *)

\* every name the descriptors contribute is registered, and nothing else
AllRegistered(instance) ==
    /\ Range(Keys(instance._actionCreators)) =
           UNION {NamesOfSlice("getActions", _reducers[i].val.descriptor) :
                     i \in DOMAIN _reducers}
    /\ Range(Keys(instance._selectors)) =
           UNION {NamesOfSlice("getSelectors", _reducers[i].val.descriptor) :
                     i \in DOMAIN _reducers}

\* C17: at the moment a middleware factory is invoked it receives the fully
\* constructed instance: the actions and selectors of every slice descriptor
\* are registered and the store is operational, so the bound actions, the
\* selector reads without a state and getStore().getState() the factory
\* calls succeed.
C17_FactoryGetsConstructedInstance ==
    last.op = "factory"
    => /\ AllRegistered(last.instance)
       /\ last.storeCreated
       /\ last.threw = "none"

\* the action objects the bound actions of the instance dispatch
BoundActionObjects ==
    {BuildAction(Get(_actionCreators, name).type, args[1], args[2]) :
        name \in Range(Keys(_actionCreators)), args \in BoundActionArguments}

\* C18: for any action object a that a bound action dispatched, as a
\* middleware intercepts it, strictDispatch(a) dispatches an action equal to
\* a: the same type, the same payload, the same presence and value of meta
\* and the same error flag.
C18_RedispatchRoundTrip ==
    (last.op = "strictDispatch" /\ last.given \in BoundActionObjects)
    => /\ last.dispatched
       /\ last.threw = "none"
       /\ DOMAIN last.action = DOMAIN last.given
       /\ last.action = last.given

\* C18 happens: an action with an Error payload, a meta and the error flag
\* went through strictDispatch
C18_Witness ==
    /\ last.op = "strictDispatch"
    /\ last.dispatched
    /\ last.given.payload = ErrorObject
    /\ last.given.meta = Num(7)
    /\ last.given.error
    /\ last.action.meta = Num(7)
    /\ last.action.error

-----------------------------------------------------------------------------
(* Properties of overlapping clauses *)

\* the registered names of the first n clauses, clause after clause
RECURSIVE NamesOfClauses(_, _, _)
NamesOfClauses(registry, clauses, n) ==
    IF n = 0 THEN <<>>
    ELSE NamesOfClauses(registry, clauses, n - 1) \o RegisteredNames(registry, clauses[n])

\* the clauses of the last query without clause i
ClausesWithout(i) ==
    SubSeq(ClausesOf(last.query), 1, i - 1)
        \o SubSeq(ClausesOf(last.query), i + 1, Len(ClausesOf(last.query)))

\* clause i of the last query, which resolves, names only what the other
\* clauses name
Redundant(i) ==
    /\ Len(ClausesOf(last.query)) > 1
    /\ RegisteredNames(RegistryOf(last.op), ClausesOf(last.query)[i]) # <<>>
    /\ Range(RegisteredNames(RegistryOf(last.op), ClausesOf(last.query)[i]))
           \subseteq Range(NamesOfClauses(RegistryOf(last.op), ClausesWithout(i),
                                          Len(ClausesWithout(i))))

\* what the last operation returns for a list of resolved names
ResultOf(names) ==
    IF last.op = "getActions" THEN CollectAccessors(_actionCreators, names)
    ELSE IF last.op = "getSelectors" THEN CollectAccessors(_selectors, names)
    ELSE IF last.op = "getActionTypes" THEN NamesByName(names)
    ELSE SelectEach(CollectAccessors(_selectors, names), last.given,
                    Len(CollectAccessors(_selectors, names))).result

\* C19: for a query whose clauses overlap, such as "a, a_x", the resolved
\* name list keeps the order of the clauses and holds a name once per clause
\* that matches it, while the mapping returned by getSelectors, getActions
\* and select has exactly one entry per distinct resolved name, so that it
\* equals the result of the same query with the redundant clause removed.
C19_OverlappingClausesGiveOneEntryPerName ==
    ( /\ last.op \in QueryOps
      /\ last.query.t = "string"
      /\ FailingClauses = {}
      /\ \E i \in DOMAIN ClausesOf(last.query) : Redundant(i) )
    => /\ last.threw = "none"
       /\ last.resolved.names =
              NamesOfClauses(RegistryOf(last.op), ClausesOf(last.query),
                             Len(ClausesOf(last.query)))
       /\ Len(last.result) = Cardinality(Range(last.resolved.names))
       /\ Range(Keys(last.result)) = Range(last.resolved.names)
       /\ \A i \in DOMAIN ClausesOf(last.query) :
              Redundant(i)
              => Range(last.result) =
                     Range(ResultOf(NamesOfClauses(RegistryOf(last.op), ClausesWithout(i),
                                                   Len(ClausesWithout(i)))))

\* C19 happens: select("a, a_x") resolved a_x twice and returned it once
C19_Witness ==
    /\ last.op = "select"
    /\ last.query = Str(n_a \o <<",", " ">> \o FullName(n_a, n_x))
    /\ last.threw = "none"
    /\ Len(last.resolved.names) > Cardinality(Range(last.resolved.names))
    /\ last.resolved.names[1] = FullName(n_a, n_x)
    /\ last.resolved.names[Len(last.resolved.names)] = FullName(n_a, n_x)
    /\ Len(last.result) = Len(last.resolved.names) - 1

====
